---------------------------- MODULE Spec2Model ----------------------------
(***************************************************************************)
(* Google Forms Limiter (src/form-limiter.js, lines 1-189): the weekly     *)
(* recurrence resolver parseDate_ and the reconciliation scheduler         *)
(* weeklyReInit with its open / close / limit handlers.                    *)
(*                                                                         *)
(* A Date is its time value: an integer number of milliseconds of local    *)
(* wall-clock time since local midnight of 1 January 1970 (a Thursday),    *)
(* or NaN for an Invalid Date.  The script time zone is taken to have a     *)
(* fixed UTC offset, so adding k to the day of the month adds k * 24 h.    *)
(* A string is the sequence of its characters.                             *)
(***************************************************************************)
EXTENDS Integers, Sequences, FiniteSets, TLC

(***************************************************************************)
(* Bounds of the model.                                                    *)
(***************************************************************************)
\* base timestamps of the resolver fall on days 0 .. MaxBaseDay
MaxBaseDay == 7
\* the clock of the scheduler takes instants on days 0 .. MaxClockDay
MaxClockDay == 8
\* the form receives at most MaxResponses responses
MaxResponses == 2

(***************************************************************************)
(* ECMAScript values used by the script.                                   *)
(***************************************************************************)
\* the time value of an Invalid Date, and the number NaN
NaN == -1
MsPerSecond == 1000
MsPerMinute == 60 * MsPerSecond
MsPerHour == 60 * MsPerMinute
MsPerDay == 24 * MsPerHour
\* getDay() of time value 0: 1 January 1970 was a Thursday
EpochWeekday == 4

\* the string "" and the other values a user setting may hold
Blank == [kind |-> "string", chars |-> <<>>]
Rule(day, time) == [kind |-> "object", day |-> day, time |-> time]
Num(n) == [kind |-> "number", n |-> n]

Digits == <<"0", "1", "2", "3", "4", "5", "6", "7", "8", "9">>
IsDigit(c) == \E i \in 1..10 : Digits[i] = c
DigitValue(c) == (CHOOSE i \in 1..10 : Digits[i] = c) - 1

\* a < b and a <= b of two numbers: false when either is NaN
JsLt(a, b) == a # NaN /\ b # NaN /\ a < b
JsLe(a, b) == a # NaN /\ b # NaN /\ a <= b

\* a % b: the remainder takes the sign of the dividend
JsRem(a, b) == IF a >= 0 THEN a % b ELSE 0 - ((0 - a) % b)

\* String.prototype.substr(start, length), start counted from 0
substr(s, start, length) ==
    IF start >= Len(s) THEN <<>>
    ELSE SubSeq(s, start + 1, IF start + length <= Len(s) THEN start + length ELSE Len(s))

\* ToNumber of a string of digits, colons and letters: "" is 0, a run of
\* decimal digits is its value, anything else is NaN
RECURSIVE DecimalValue(_)
DecimalValue(s) ==
    IF s = <<>> THEN 0
    ELSE 10 * DecimalValue(SubSeq(s, 1, Len(s) - 1)) + DigitValue(s[Len(s)])

ToNumber(s) ==
    IF \A i \in 1..Len(s) : IsDigit(s[i]) THEN DecimalValue(s) ELSE NaN

\* Date.prototype.getDay(): 0 = Sunday .. 6 = Saturday
getDay(d) == (EpochWeekday + (d \div MsPerDay)) % 7

\* Date.prototype.setSeconds(sec) and setMilliseconds(ms)
setSeconds(d, sec) ==
    IF d = NaN THEN NaN
    ELSE d - ((d \div MsPerSecond) % 60) * MsPerSecond + sec * MsPerSecond

setMilliseconds(d, ms) ==
    IF d = NaN THEN NaN ELSE d - (d % MsPerSecond) + ms

\* d.setDate(d.getDate() + k): the same time of day, k days later
addDate(d, k) ==
    IF d = NaN THEN NaN ELSE d + k * MsPerDay

\* Date.prototype.setHours(h) and setMinutes(m), the argument converted
\* by ToNumber; a NaN argument makes the Date invalid
setHours(d, h) ==
    IF d = NaN \/ ToNumber(h) = NaN THEN NaN
    ELSE d - ((d \div MsPerHour) % 24) * MsPerHour + ToNumber(h) * MsPerHour

setMinutes(d, m) ==
    IF d = NaN \/ ToNumber(m) = NaN THEN NaN
    ELSE d - ((d \div MsPerMinute) % 60) * MsPerMinute + ToNumber(m) * MsPerMinute

(***************************************************************************)
(* The script's constants.                                                 *)
(***************************************************************************)
weekdays == <<"Sunday", "Monday", "Tuesday", "Wednesday", "Thursday", "Friday", "Saturday">>
DO_NOT_MAIL == 0
MAIL_ON_OPEN == 1
MAIL_ON_CLOSE == 2
MAIL_ON_LIMIT == 4
ALL_MAILS == MAIL_ON_OPEN + MAIL_ON_CLOSE + MAIL_ON_LIMIT

\* mask & flag, for a flag that is a single bit
BitAnd(mask, flag) == IF (mask \div flag) % 2 = 1 THEN flag ELSE 0

\* weekdays.indexOf(name): the index from 0, or -1
indexOf(name) ==
    IF \E i \in 1..Len(weekdays) : weekdays[i] = name
    THEN (CHOOSE i \in 1..Len(weekdays) : weekdays[i] = name) - 1
    ELSE -1

(***************************************************************************)
(* parseDate_(baseDate, nextTrigger)                                       *)
(***************************************************************************)
\* the day offset added on line 181
dayOffset(nextDayOfWeek, day) == JsRem(nextDayOfWeek + 7 - day, 7)

\* variants of rollOver: a candidate equal to the base is kept; a day is
\* added instead of a week
rollOverStrict(nextDate, baseDate) ==
    IF JsLt(nextDate, baseDate) THEN addDate(nextDate, 7) ELSE nextDate

rollOverADay(nextDate, baseDate) ==
    IF JsLe(nextDate, baseDate) THEN addDate(nextDate, 1) ELSE nextDate

\* a variant of rollOver that moves every candidate a week on
rollOverAlways(nextDate, baseDate) == addDate(nextDate, 7)

\* lines 185-187: a candidate at or before the base moves a week on
rollOver(nextDate, baseDate) ==
    IF JsLe(nextDate, baseDate) THEN addDate(nextDate, 7) ELSE nextDate

\* a variant of parseDate_ that keeps the base's seconds and milliseconds
parseDate_KeepSeconds(baseDate, nextTrigger) ==
    LET nextDayOfWeek == indexOf(nextTrigger.day)
        hours == substr(nextTrigger.time, 0, 2)
        minutes == substr(nextTrigger.time, 3, 2)
        d1 == addDate(baseDate, dayOffset(nextDayOfWeek, getDay(baseDate)))
        d2 == setMinutes(setHours(d1, hours), minutes)
    IN  rollOver(d2, baseDate)

parseDate_(baseDate, nextTrigger) ==
    LET nextDayOfWeek == indexOf(nextTrigger.day)
        hours == substr(nextTrigger.time, 0, 2)
        minutes == substr(nextTrigger.time, 3, 2)
        d0 == setMilliseconds(setSeconds(baseDate, 0), 0)
        d1 == addDate(d0, dayOffset(nextDayOfWeek, getDay(d0)))
        d2 == setMinutes(setHours(d1, hours), minutes)
    IN  rollOver(d2, baseDate)

(***************************************************************************)
(* State.  The four user settings are fixed for a run; the clock, the      *)
(* form and the project's trigger registry belong to the host.  outbox and *)
(* last record what the most recent handler did: the mails it sent, and    *)
(* its name, its "new Date()", the form's state before it, the open /     *)
(* close functions it called, in order, whether a call of a service of     *)
(* the host threw in it, and whether it was a cycle run                    *)
(* straight after a cycle at the same instant; initialized says that       *)
(* weeklyReInit has run at least once.  trace is the list of the calls of  *)
(* the host's services made by the most recent cycle that was traced.      *)
(***************************************************************************)
VARIABLES FORM_OPEN, FORM_CLOSE, RESPONSE_COUNT, MAIL_NOTIFY,
          clock, accepting, responses, triggers, outbox, last, initialized,
          trace, rbase, rrule, rout

settings == <<FORM_OPEN, FORM_CLOSE, RESPONSE_COUNT, MAIL_NOTIFY>>
host == <<clock, accepting, responses, triggers, outbox, last, initialized, trace>>
resolver == <<rbase, rrule, rout>>
vars == <<settings, host, resolver>>

\* the time value of day d at h:m:s.ms
At(d, h, m, s, ms) ==
    d * MsPerDay + h * MsPerHour + m * MsPerMinute + s * MsPerSecond + ms

\* a time string "HH:MM" as its characters
T(a, b, c, d) == <<Digits[a + 1], Digits[b + 1], ":", Digits[c + 1], Digits[d + 1]>>

(***************************************************************************)
(* Triggers of the project (ScriptApp).                                    *)
(***************************************************************************)
ClockTrigger(fn, at) ==
    [handler |-> fn, source |-> "CLOCK", at |-> at, fired |-> FALSE]
FormTrigger(fn) ==
    [handler |-> fn, source |-> "FORMS"]

\* ScriptApp.deleteTrigger(t)
deleteTrigger(registry, t) == SelectSeq(registry, LAMBDA x : x # t)

\* ScriptApp.newTrigger(...)...create()
createTrigger(registry, t) == Append(registry, t)

(***************************************************************************)
(* The handlers, as functions of the world w they act on:                  *)
(* w.accepting, w.triggers, w.outbox, w.calls.  w.ops lists the calls of   *)
(* the host's services the handler has made; the call number w.fault (if   *)
(* not 0) throws, and an exception is caught nowhere: once w.failed, the   *)
(* rest of the handler does not run.                                       *)
(***************************************************************************)
\* the element of a set of one element; {F(v) : v \in {w}} is F of the
\* world w, with w computed once
Only(S) == CHOOSE x \in S : TRUE

\* the entry of w.ops for a call: the service, and the triggers that are
\* registered when it returns or throws
Op(service, w) == [service |-> service, registered |-> Len(w.triggers)]

\* one call of a service of the host, effect being the world it leaves
Do(w, service, effect) ==
    IF w.failed THEN w
    ELSE IF Len(w.ops) + 1 = w.fault
         THEN [w EXCEPT !.ops = Append(@, Op(service, w)), !.failed = TRUE]
         ELSE [effect EXCEPT !.ops = Append(w.ops, Op(service, effect))]

informUser_(w, subject) ==
    Do(w, "sendEmail", [w EXCEPT !.outbox = Append(@, subject)])

RECURSIVE deleteAll(_, _)
deleteAll(w, list) ==
    IF list = <<>> THEN w
    ELSE Only({deleteAll(w1, Tail(list)) :
                w1 \in {Do(w, "deleteTrigger",
                            [w EXCEPT !.triggers = deleteTrigger(@, Head(list))])}})

\* a variant of deleteTriggers_ that deletes the first trigger only
deleteTriggers_FirstOnly(w) ==
    Only({deleteAll(w1, IF w.triggers = <<>> THEN <<>> ELSE <<Head(w.triggers)>>) :
            w1 \in {Do(w, "getProjectTriggers", w)}})

deleteTriggers_(w) ==
    Only({deleteAll(w1, w.triggers) : w1 \in {Do(w, "getProjectTriggers", w)}})

isFormAcceptingResponses(w) == w.accepting

\* a variant of openForm that mails only when the form was closed before
openFormOnChange(w) ==
    IF w.failed THEN w
    ELSE Only({IF BitAnd(MAIL_NOTIFY, MAIL_ON_OPEN) # 0 /\ ~w.accepting
               THEN informUser_(w1, "Your Google Form is now accepting responses")
               ELSE w1 :
                 w1 \in {Do([w EXCEPT !.calls = Append(@, "openForm")],
                             "setAcceptingResponses",
                             [w EXCEPT !.accepting = TRUE,
                                       !.calls = Append(@, "openForm")])}})

openForm(w) ==
    IF w.failed THEN w
    ELSE Only({IF BitAnd(MAIL_NOTIFY, MAIL_ON_OPEN) # 0
               THEN informUser_(w1, "Your Google Form is now accepting responses")
               ELSE w1 :
                 w1 \in {Do([w EXCEPT !.calls = Append(@, "openForm")],
                             "setAcceptingResponses",
                             [w EXCEPT !.accepting = TRUE,
                                       !.calls = Append(@, "openForm")])}})

closeForm(w) ==
    IF w.failed THEN w
    ELSE Only({IF BitAnd(MAIL_NOTIFY, MAIL_ON_CLOSE) # 0
               THEN informUser_(w1, "Your Google Form is no longer accepting responses")
               ELSE w1 :
                 w1 \in {Do([w EXCEPT !.calls = Append(@, "closeForm")],
                             "setAcceptingResponses",
                             [w EXCEPT !.accepting = FALSE,
                                       !.calls = Append(@, "closeForm")])}})

\* responses.length >= RESPONSE_COUNT
limitReached(count) ==
    count >= (IF RESPONSE_COUNT = Blank THEN ToNumber(Blank.chars) ELSE RESPONSE_COUNT.n)

\* a variant of checkLimit that closes the form before it sends the limit mail
checkLimitCloseFirst(w, count) ==
    IF limitReached(count)
    THEN IF BitAnd(MAIL_NOTIFY, MAIL_ON_LIMIT) # 0
         THEN Only({informUser_(w1, "Your Google Form reached the response limit") :
                        w1 \in {closeForm(w)}})
         ELSE closeForm(w)
    ELSE w

checkLimit(w, count) ==
    IF limitReached(count)
    THEN IF BitAnd(MAIL_NOTIFY, MAIL_ON_LIMIT) # 0
         THEN Only({closeForm(w1) :
                        w1 \in {informUser_(w, "Your Google Form reached the response limit")}})
         ELSE closeForm(w)
    ELSE w

\* a variant of armOpen that closes the form when it arms the open edge
armOpenClosing(w, dateTime) ==
    IF FORM_OPEN # Blank /\ JsLt(dateTime, parseDate_(dateTime, FORM_OPEN))
    THEN Only({Do(c, "newTrigger", [c EXCEPT !.triggers =
                    createTrigger(@, ClockTrigger("openForm", parseDate_(dateTime, FORM_OPEN)))]) :
                 c \in {closeForm(w)}})
    ELSE w

\* lines 81-90: the open edge
armOpen(w, dateTime) ==
    IF FORM_OPEN # Blank /\ JsLt(dateTime, parseDate_(dateTime, FORM_OPEN))
    THEN Do(w, "newTrigger", [w EXCEPT !.triggers =
            createTrigger(@, ClockTrigger("openForm", parseDate_(dateTime, FORM_OPEN)))])
    ELSE w

\* a variant of armClose with the guard reversed
armCloseReversed(w, dateTime) ==
    IF FORM_CLOSE # Blank /\ JsLt(parseDate_(dateTime, FORM_CLOSE), dateTime)
    THEN Do(w, "newTrigger", [w EXCEPT !.triggers =
            createTrigger(@, ClockTrigger("closeForm", parseDate_(dateTime, FORM_CLOSE)))])
    ELSE w

\* lines 92-99: the close edge
armClose(w, dateTime) ==
    IF FORM_CLOSE # Blank /\ JsLt(dateTime, parseDate_(dateTime, FORM_CLOSE))
    THEN Do(w, "newTrigger", [w EXCEPT !.triggers =
            createTrigger(@, ClockTrigger("closeForm", parseDate_(dateTime, FORM_CLOSE)))])
    ELSE w

\* a variant of shouldBeOpen that takes equal edges for a closed form
shouldBeOpenStrict(nextOpenDateTime, nextCloseDateTime) ==
    JsLt(nextCloseDateTime, nextOpenDateTime)

\* a variant of shouldBeOpen with the two edges exchanged
shouldBeOpenSwapped(nextOpenDateTime, nextCloseDateTime) ==
    JsLe(nextOpenDateTime, nextCloseDateTime)

\* line 103
shouldBeOpen(nextOpenDateTime, nextCloseDateTime) ==
    JsLe(nextCloseDateTime, nextOpenDateTime)

\* a variant of reconcile that sets the state without looking at it
reconcileUnseen(w, dateTime) ==
    IF FORM_CLOSE # Blank /\ FORM_OPEN # Blank
    THEN IF shouldBeOpen(parseDate_(dateTime, FORM_OPEN), parseDate_(dateTime, FORM_CLOSE))
         THEN openForm(w)
         ELSE closeForm(w)
    ELSE w

\* lines 101-109: the state is corrected when both edges are controlled
reconcile(w, dateTime) ==
    IF FORM_CLOSE # Blank /\ FORM_OPEN # Blank
    THEN LET open == shouldBeOpen(parseDate_(dateTime, FORM_OPEN),
                                  parseDate_(dateTime, FORM_CLOSE))
         IN  Only({IF open /\ ~isFormAcceptingResponses(q) THEN openForm(q)
                   ELSE IF ~open /\ isFormAcceptingResponses(q) THEN closeForm(q)
                   ELSE q :
                     q \in {Do(w, "isAcceptingResponses", w)}})
    ELSE w

\* lines 112-117: the limit watcher
armLimit(w) ==
    IF RESPONSE_COUNT # Blank
    THEN Do(w, "newTrigger",
            [w EXCEPT !.triggers = createTrigger(@, FormTrigger("checkLimit"))])
    ELSE w

\* a variant of armReInit for a parseDate_ that changes its baseDate in
\* place: the week is counted from the edge resolved last
armReInitFromEdge(w, dateTime) ==
    LET moved == IF FORM_CLOSE # Blank THEN parseDate_(dateTime, FORM_CLOSE)
                 ELSE IF FORM_OPEN # Blank THEN parseDate_(dateTime, FORM_OPEN)
                 ELSE dateTime
    IN  Do(w, "newTrigger", [w EXCEPT !.triggers =
            createTrigger(@, ClockTrigger("weeklyReInit", addDate(moved, 7)))])

\* lines 119-124: re-init in a week
armReInit(w, dateTime) ==
    Do(w, "newTrigger", [w EXCEPT !.triggers =
        createTrigger(@, ClockTrigger("weeklyReInit", addDate(dateTime, 7)))])

\* a variant of weeklyReInit that clears the registry of the triggers of
\* the cycle before only after it has armed the open edge
weeklyReInitClearLate(w, dateTime) ==
    Only({armReInit(w5, dateTime) :
      w5 \in {armLimit(w4) :
        w4 \in {reconcile(w3, dateTime) :
          w3 \in {armClose(w2, dateTime) :
            w2 \in {deleteAll(Do(w1, "getProjectTriggers", w1), w.triggers) :
              w1 \in {armOpen(w, dateTime)}}}}}})

\* a variant of weeklyReInit that arms the re-init trigger first
weeklyReInitReInitFirst(w, dateTime) ==
    Only({armLimit(w5) :
      w5 \in {reconcile(w4, dateTime) :
        w4 \in {armClose(w3, dateTime) :
          w3 \in {armOpen(w2, dateTime) :
            w2 \in {armReInit(w1, dateTime) :
              w1 \in {deleteTriggers_(w)}}}}}})

\* the steps in the order of the code, each on the world the step before
\* it left
weeklyReInit(w, dateTime) ==
    Only({armReInit(w5, dateTime) :
      w5 \in {armLimit(w4) :
        w4 \in {reconcile(w3, dateTime) :
          w3 \in {armClose(w2, dateTime) :
            w2 \in {armOpen(w1, dateTime) :
              w1 \in {deleteTriggers_(w)}}}}}})

(***************************************************************************)
(* The settings and instants the model draws from.                         *)
(***************************************************************************)
\* a weekday of the array and a time "HH:MM" with HH <= 23 and MM <= 59
ValidTime(t) ==
    /\ Len(t) = 5
    /\ t[3] = ":"
    /\ \A i \in {1, 2, 4, 5} : IsDigit(t[i])
    /\ DecimalValue(SubSeq(t, 1, 2)) <= 23
    /\ DecimalValue(SubSeq(t, 4, 5)) <= 59
ValidRule(r) == r # Blank /\ indexOf(r.day) # -1 /\ ValidTime(r.time)

\* an unknown weekday name; a time whose hours do not parse
BadDayRule == Rule("Funday", T(1, 6, 0, 0))
BadTimeRule == Rule("Friday", <<"9", ":", "0", "0">>)

OpenSettings == {Blank, Rule("Friday", T(1, 6, 0, 0)), BadDayRule, BadTimeRule}
CloseSettings ==
    {Blank, Rule("Wednesday", T(0, 8, 0, 0)), Rule("Friday", T(1, 6, 0, 0)), BadTimeRule}
LimitSettings == {Blank, Num(1)}
MailSettings == {DO_NOT_MAIL, MAIL_ON_LIMIT, MAIL_ON_OPEN + MAIL_ON_CLOSE, ALL_MAILS}

\* the instants the host's clock passes through: on the edge of a rule, and
\* between edges with seconds and milliseconds that are not zero
ClockInstants ==
    {At(d, 8, 0, 0, 0) : d \in 0..MaxClockDay}
        \cup {At(d, 16, 0, 30, 500) : d \in 0..MaxClockDay}

\* triggers a project may hold before Initialize is first run
LeftoverTriggers ==
    {<<>>,
     <<ClockTrigger("openForm", At(1, 14, 40, 0, 0)),
       ClockTrigger("openForm", At(1, 14, 40, 0, 0))>>,
     <<ClockTrigger("closeForm", At(1, 14, 41, 0, 0)), FormTrigger("checkLimit"),
       ClockTrigger("weeklyReInit", At(2, 8, 0, 0, 0))>>}

(***************************************************************************)
(* The scheduler: the host runs one handler at a time.                     *)
(***************************************************************************)
World ==
    [accepting |-> accepting, triggers |-> triggers, outbox |-> <<>>, calls |-> <<>>,
     ops |-> <<>>, fault |-> 0, failed |-> FALSE]

\* the two ways into weeklyReInit: by hand, and by its own trigger
CycleEntries == {"Initialize", "weeklyReInit"}

\* the record of last before any handler has run
Nothing(state) ==
    [fn |-> "none", before |-> state, calls |-> <<>>, now |-> NaN,
     again |-> FALSE, failed |-> FALSE]

\* the state a handler fn leaves, w being the world it returned
Leaves(fn, w) ==
    /\ accepting' = w.accepting
    /\ triggers' = w.triggers
    /\ outbox' = w.outbox
    /\ last' = [fn |-> fn, before |-> accepting, calls |-> w.calls,
                now |-> IF fn \in CycleEntries THEN clock ELSE NaN,
                again |-> fn \in CycleEntries /\ last.fn \in CycleEntries
                            /\ last.now = clock /\ ~last.failed,
                failed |-> w.failed]
    /\ initialized' = (initialized \/ fn \in CycleEntries)

Ran(fn, w) == \E left \in {w} : Leaves(fn, left) /\ UNCHANGED trace

Init ==
    /\ FORM_OPEN \in OpenSettings
    /\ FORM_CLOSE \in CloseSettings
    /\ RESPONSE_COUNT \in LimitSettings
    /\ MAIL_NOTIFY \in MailSettings
    /\ clock \in ClockInstants
    /\ accepting \in BOOLEAN
    /\ responses = 0
    /\ triggers \in LeftoverTriggers
    /\ outbox = <<>>
    /\ last = Nothing(accepting)
    /\ initialized = FALSE
    /\ trace = <<>>
    /\ rbase = 0 /\ rrule = Blank /\ rout = <<>>

\* time passes
Tick ==
    /\ \E t \in ClockInstants :
        /\ t > clock
        /\ \A u \in ClockInstants : u > clock => u >= t
        /\ clock' = t
    /\ UNCHANGED <<settings, accepting, responses, triggers, outbox, last,
                   initialized, trace, resolver>>

\* the owner runs Initialize from the editor
Initialize ==
    /\ Ran("Initialize", weeklyReInit(World, clock))
    /\ UNCHANGED <<settings, clock, responses, resolver>>

\* a time-based trigger that is due runs its handler, once
Due(i) ==
    /\ triggers[i].source = "CLOCK"
    /\ ~triggers[i].fired
    /\ JsLe(triggers[i].at, clock)

Expired(i) == [World EXCEPT !.triggers[i].fired = TRUE]

FireOpen ==
    /\ \E i \in 1..Len(triggers) :
        /\ Due(i) /\ triggers[i].handler = "openForm"
        /\ Ran("openForm", openForm(Expired(i)))
    /\ UNCHANGED <<settings, clock, responses, resolver>>

FireClose ==
    /\ \E i \in 1..Len(triggers) :
        /\ Due(i) /\ triggers[i].handler = "closeForm"
        /\ Ran("closeForm", closeForm(Expired(i)))
    /\ UNCHANGED <<settings, clock, responses, resolver>>

FireReInit ==
    /\ \E i \in 1..Len(triggers) :
        /\ Due(i) /\ triggers[i].handler = "weeklyReInit"
        /\ Ran("weeklyReInit", weeklyReInit(Expired(i), clock))
    /\ UNCHANGED <<settings, clock, responses, resolver>>

\* a response is submitted to the accepting form; every form-submit
\* trigger of the project then runs checkLimit
RECURSIVE onFormSubmit(_, _, _)
onFormSubmit(w, list, count) ==
    IF list = <<>> THEN w
    ELSE Only({onFormSubmit(w1, Tail(list), count) :
                w1 \in {IF Head(list).source = "FORMS" THEN checkLimit(w, count) ELSE w}})

Submit ==
    /\ accepting
    /\ responses < MaxResponses
    /\ responses' = responses + 1
    /\ Ran("submit", onFormSubmit(World, triggers, responses + 1))
    /\ UNCHANGED <<settings, clock, resolver>>

Next == Tick \/ Initialize \/ FireOpen \/ FireClose \/ FireReInit \/ Submit

Spec == Init /\ [][Next]_vars

(***************************************************************************)
(* The resolver alone: parseDate_ applied to a base and a rule, and then   *)
(* to its own result.                                                      *)
(***************************************************************************)
ResolverBases ==
    {At(d, h, m, sec, ms) :
        d \in 0..MaxBaseDay, h \in {0, 11, 16, 23}, m \in {0, 59},
        sec \in {0, 30}, ms \in {0, 500}}

ResolverTimes ==
    {T(0, 0, 0, 0), T(1, 1, 0, 0), T(1, 6, 0, 0), T(2, 3, 5, 9),
     T(2, 5, 0, 0), <<"9", ":", "0", "0">>, <<"1", "6">>}

ResolverRules ==
    {Rule(day, time) :
        day \in {weekdays[i] : i \in 1..Len(weekdays)} \cup {"Funday"},
        time \in ResolverTimes}

ResolveInit ==
    /\ rbase \in ResolverBases
    /\ rrule \in ResolverRules
    /\ rout = <<>>
    /\ FORM_OPEN = Blank /\ FORM_CLOSE = Blank
    /\ RESPONSE_COUNT = Blank /\ MAIL_NOTIFY = DO_NOT_MAIL
    /\ clock = 0 /\ accepting = FALSE /\ responses = 0
    /\ triggers = <<>> /\ outbox = <<>>
    /\ last = Nothing(FALSE)
    /\ initialized = FALSE
    /\ trace = <<>>

\* parseDate_(base, rule)
Resolve ==
    /\ rout = <<>>
    /\ rout' = <<parseDate_(rbase, rrule)>>
    /\ UNCHANGED <<settings, host, rbase, rrule>>

\* parseDate_(parseDate_(base, rule), rule)
ResolveAgain ==
    /\ Len(rout) = 1
    /\ rout' = Append(rout, parseDate_(rout[1], rrule))
    /\ UNCHANGED <<settings, host, rbase, rrule>>

ResolveNext == Resolve \/ ResolveAgain

ResolveSpec == ResolveInit /\ [][ResolveNext]_vars

(***************************************************************************)
(* Properties of the resolver, checked under ResolveSpec.                  *)
(***************************************************************************)
Week == 7 * MsPerDay
DayStart(t) == t - (t % MsPerDay)
TimeOfDay(t) == t % MsPerDay
\* the time of day a valid rule names, seconds and milliseconds zero
RuleTimeOfDay(r) ==
    DecimalValue(SubSeq(r.time, 1, 2)) * MsPerHour
        + DecimalValue(SubSeq(r.time, 4, 5)) * MsPerMinute
\* t is an occurrence of the valid rule r
OnRule(t, r) == getDay(t) = indexOf(r.day) /\ TimeOfDay(t) = RuleTimeOfDay(r)

Resolved == Len(rout) >= 1
ResolvedTwice == Len(rout) = 2

\* C1: for every base B and every rule R with a valid weekday and HH:MM
\* time, parseDate_(B, R) is a timestamp strictly greater than B, and a
\* candidate equal to B (B itself an occurrence of R) is pushed forward a
\* full week.
C1_StrictlyAfterBase ==
    (Resolved /\ ValidRule(rrule)) =>
        /\ rout[1] # NaN
        /\ rout[1] > rbase
        /\ OnRule(rbase, rrule) => rout[1] = rbase + Week

\* the base is itself an occurrence of the rule and the result is a week on
C1_Witness ==
    /\ Resolved /\ ValidRule(rrule)
    /\ OnRule(rbase, rrule)
    /\ rout[1] = rbase + Week

\* C2: resolving again from the first result gives exactly one week later.
C2_WeeklyPeriod ==
    (ResolvedTwice /\ ValidRule(rrule)) => rout[2] - rout[1] = Week

\* a base with seconds, resolved twice, the first result later the same week
C2_Witness ==
    /\ ResolvedTwice /\ ValidRule(rrule)
    /\ rbase % MsPerMinute # 0
    /\ rout[1] - rbase < Week
    /\ rout[2] = rout[1] + Week

\* C3: when the rule's weekday is the weekday of the base and the rule's
\* time is at or before the base's time of day, the result is the date of
\* the base plus exactly 7 days, at the rule's time with seconds zero.
C3_SameDayElapsed ==
    (/\ Resolved /\ ValidRule(rrule)
     /\ indexOf(rrule.day) = getDay(rbase)
     /\ RuleTimeOfDay(rrule) <= TimeOfDay(rbase)) =>
        rout[1] = DayStart(rbase) + Week + RuleTimeOfDay(rrule)

\* the rule's time elapsed earlier today, the base carrying seconds
C3_Witness ==
    /\ Resolved /\ ValidRule(rrule)
    /\ indexOf(rrule.day) = getDay(rbase)
    /\ RuleTimeOfDay(rrule) < TimeOfDay(rbase)
    /\ rbase % MsPerMinute # 0
    /\ rout[1] = DayStart(rbase) + Week + RuleTimeOfDay(rrule)

\* C7: a rule whose weekday name is not one of Sunday..Saturday does not
\* resolve to a timestamp, and so not to the timestamp of the same rule on
\* some valid weekday (a silent wrap).
C7_UnknownWeekdayRejected ==
    (Resolved /\ indexOf(rrule.day) = -1) =>
        /\ rout[1] = NaN
        /\ \A i \in 1..Len(weekdays) :
             rout[1] # parseDate_(rbase, Rule(weekdays[i], rrule.time))

(***************************************************************************)
(* Properties of the scheduler, checked under Spec.                        *)
(***************************************************************************)
\* the last handler was a run of weeklyReInit, at last.now
CycleDone == last.fn \in CycleEntries
NextOpen == parseDate_(last.now, FORM_OPEN)
NextClose == parseDate_(last.now, FORM_CLOSE)
\* a setting that is present and is not a rule of the data model
BadRule(r) == r # Blank /\ ~ValidRule(r)

LimitSubject == "Your Google Form reached the response limit"
CloseSubject == "Your Google Form is no longer accepting responses"

\* the triggers of the registry that run fn
Count(fn) == Cardinality({i \in 1..Len(triggers) : triggers[i].handler = fn})

\* C4: with both rules configured, whatever the form's state was before,
\* after weeklyReInit the form is accepting if and only if
\* nextClose <= nextOpen, the edges resolved from the cycle's now.
C4_ConvergesInOneCycle ==
    (CycleDone /\ FORM_OPEN # Blank /\ FORM_CLOSE # Blank) =>
        (accepting <=> JsLe(NextClose, NextOpen))

\* a cycle run by its own trigger found the form closed and opened it
C4_Witness ==
    /\ CycleDone /\ FORM_OPEN # Blank /\ FORM_CLOSE # Blank
    /\ last.fn = "weeklyReInit"
    /\ ~last.before /\ accepting
    /\ JsLe(NextClose, NextOpen)

\* the triggers a cycle at last.now leaves according to the settings
TriggersOfCycle ==
    (IF FORM_OPEN # Blank THEN <<ClockTrigger("openForm", NextOpen)>> ELSE <<>>)
        \o (IF FORM_CLOSE # Blank THEN <<ClockTrigger("closeForm", NextClose)>> ELSE <<>>)
        \o (IF RESPONSE_COUNT # Blank THEN <<FormTrigger("checkLimit")>> ELSE <<>>)
        \o <<ClockTrigger("weeklyReInit", last.now + Week)>>

\* C5: after weeklyReInit the registry holds exactly the triggers of this
\* cycle: an open trigger at nextOpen iff FORM_OPEN is set, a close trigger
\* at nextClose iff FORM_CLOSE is set, a form-submit trigger iff
\* RESPONSE_COUNT is set, and one re-init trigger; none from before.
C5_ExactlyThisCyclesTriggers ==
    CycleDone => triggers = TriggersOfCycle

\* the same over the settings whose rules are rules of the data model
C5_WhenRulesValid ==
    (CycleDone /\ ~BadRule(FORM_OPEN) /\ ~BadRule(FORM_CLOSE)) =>
        triggers = TriggersOfCycle

\* C6: once weeklyReInit has run, through any sequence of cycles and
\* trigger firings, the registry holds at most one open, one close, one
\* limit-watcher and one re-init trigger.
C6_AtMostOneOfEach ==
    initialized =>
        \A fn \in {"openForm", "closeForm", "checkLimit", "weeklyReInit"} : Count(fn) <= 1

\* all four triggers are registered, after the close trigger has fired
C6_Witness ==
    /\ initialized
    /\ last.fn = "closeForm"
    /\ \A fn \in {"openForm", "closeForm", "checkLimit", "weeklyReInit"} : Count(fn) = 1

\* C8: a cycle run with a rule that has an unknown weekday name or a
\* malformed time string aborts with no trigger armed.
C8_BadRuleArmsNothing ==
    (CycleDone /\ (BadRule(FORM_OPEN) \/ BadRule(FORM_CLOSE))) => triggers = <<>>

\* C9: with at most one of the two rules configured, weeklyReInit calls
\* neither openForm nor closeForm, leaves the form's state as it was and
\* sends no mail.
C9_NoReconciliationWithoutBoth ==
    (CycleDone /\ (FORM_OPEN = Blank \/ FORM_CLOSE = Blank)) =>
        /\ last.calls = <<>>
        /\ accepting = last.before
        /\ outbox = <<>>

\* only the close rule is set, mails are on, and the form stayed open
C9_Witness ==
    /\ CycleDone /\ last.fn = "weeklyReInit"
    /\ FORM_OPEN = Blank /\ FORM_CLOSE # Blank
    /\ MAIL_NOTIFY = ALL_MAILS
    /\ last.before /\ accepting

\* a submission was handled with the limit set and reached
LimitHit ==
    /\ initialized
    /\ last.fn = "submit"
    /\ RESPONSE_COUNT # Blank
    /\ responses >= RESPONSE_COUNT.n

\* C10: on a submission with RESPONSE_COUNT set and the response count at or
\* over it, checkLimit calls closeForm and the form stops accepting; with
\* MAIL_ON_LIMIT in MAIL_NOTIFY the limit mail is sent first, before the
\* close mail, and with ALL_MAILS exactly two mails are sent.
C10_LimitClosesAndNotifies ==
    LimitHit =>
        /\ last.calls = <<"closeForm">>
        /\ ~accepting
        /\ BitAnd(MAIL_NOTIFY, MAIL_ON_LIMIT) # 0 =>
             /\ outbox # <<>> /\ outbox[1] = LimitSubject
             /\ \A i \in 1..Len(outbox) : outbox[i] = CloseSubject => i > 1
        /\ BitAnd(MAIL_NOTIFY, MAIL_ON_CLOSE) # 0 => outbox[Len(outbox)] = CloseSubject
        /\ MAIL_NOTIFY = ALL_MAILS => outbox = <<LimitSubject, CloseSubject>>

\* the limit is reached with all mails on: one limit mail, then one close mail
C10_Witness ==
    /\ LimitHit
    /\ MAIL_NOTIFY = ALL_MAILS
    /\ last.before /\ ~accepting
    /\ outbox = <<LimitSubject, CloseSubject>>

OpenSubject == "Your Google Form is now accepting responses"

\* how many times x occurs in seq
Times(seq, x) == Cardinality({i \in 1..Len(seq) : seq[i] = x})

\* C11: openForm and closeForm set the form's state whatever it was, and
\* mail on every call: a handler sends as many open mails as it made calls
\* of openForm when MAIL_ON_OPEN is in MAIL_NOTIFY and none otherwise, the
\* same for closeForm and MAIL_ON_CLOSE; after the open trigger the form is
\* accepting, after the close trigger it is not, also when it already was.
C11_NotifyOnEveryCall ==
    /\ Times(outbox, OpenSubject) =
         (IF BitAnd(MAIL_NOTIFY, MAIL_ON_OPEN) # 0 THEN Times(last.calls, "openForm") ELSE 0)
    /\ Times(outbox, CloseSubject) =
         (IF BitAnd(MAIL_NOTIFY, MAIL_ON_CLOSE) # 0 THEN Times(last.calls, "closeForm") ELSE 0)
    /\ last.fn = "openForm" => accepting /\ last.calls = <<"openForm">>
    /\ last.fn = "closeForm" => ~accepting /\ last.calls = <<"closeForm">>

\* the open trigger fired on a form that was accepting already: one open mail
C11_Witness ==
    /\ last.fn = "openForm"
    /\ last.before /\ accepting
    /\ BitAnd(MAIL_NOTIFY, MAIL_ON_OPEN) # 0
    /\ outbox = <<OpenSubject>>

\* C13: with RESPONSE_COUNT set, in every state reached once weeklyReInit
\* has run -- by cycles, firings of the open and close triggers and
\* submissions handled by checkLimit -- the form is not accepting whenever
\* the number of responses is at or over RESPONSE_COUNT.
C13_ClosedWhileLimitReached ==
    (initialized /\ RESPONSE_COUNT # Blank /\ responses >= RESPONSE_COUNT.n) =>
        ~accepting

(***************************************************************************)
(* Further properties of the resolver, checked under ResolveSpec.          *)
(***************************************************************************)
\* the occurrences of the valid rule r from the day of t to two weeks on
Occurrences(t, r) ==
    {DayStart(t) + k * MsPerDay + RuleTimeOfDay(r) :
        k \in {j \in 0..14 : (getDay(t) + j) % 7 = indexOf(r.day)}}

\* C19: for every base B and valid rule R, parseDate_(B, R) is the earliest
\* occurrence of R after B: it falls on R's weekday at R's time with seconds
\* and milliseconds zero, and no occurrence of R lies after B and before it.
C19_EarliestOccurrence ==
    (Resolved /\ ValidRule(rrule)) =>
        /\ OnRule(rout[1], rrule)
        /\ rout[1] % MsPerMinute = 0
        /\ rout[1] \in Occurrences(rbase, rrule)
        /\ \A t \in Occurrences(rbase, rrule) : t > rbase => t >= rout[1]

\* the rule's time is still to come on the day of the base, which carries
\* seconds: the result is that occurrence, not the one a week later
C19_Witness ==
    /\ Resolved /\ ValidRule(rrule)
    /\ rbase % MsPerMinute # 0
    /\ DayStart(rout[1]) = DayStart(rbase)
    /\ rout[1] > rbase
    /\ rout[1] + Week \in Occurrences(rbase, rrule)

\* C20: for every rule R and every now, parseDate_(now, R) lies in
\* (now, now + 7 days], so that the guard now < next of weeklyReInit holds
\* and the edge trigger is due no later than the re-init trigger.
C20_EdgeWithinAWeek ==
    Resolved =>
        /\ JsLt(rbase, rout[1])
        /\ rout[1] - rbase <= Week

\* the same over the rules of the data model
C20_WhenRuleValid ==
    (Resolved /\ ValidRule(rrule)) =>
        /\ JsLt(rbase, rout[1])
        /\ rout[1] - rbase <= Week

(***************************************************************************)
(* Further properties of the scheduler, checked under Spec.                *)
(***************************************************************************)
\* C12: a cycle run straight after a cycle, with the same settings and at
\* the same now, leaves the registry and the form's state as the first
\* left them, and calls neither openForm nor closeForm (and so sends no
\* mail).
C12_SecondRunChangesNothing ==
    [][last'.again =>
         /\ triggers' = triggers
         /\ accepting' = accepting
         /\ last'.calls = <<>>
         /\ outbox' = <<>>]_vars

\* a second run with both rules and the limit set and all mails on
C12_Witness ==
    /\ last.again
    /\ FORM_OPEN # Blank /\ FORM_CLOSE # Blank /\ RESPONSE_COUNT # Blank
    /\ MAIL_NOTIFY = ALL_MAILS
    /\ Len(triggers) = 4
    /\ accepting = last.before
    /\ last.calls = <<>>

(***************************************************************************)
(* The reconciliation alone: one cycle, at any instant of two weeks, with  *)
(* any two distinct rules and the form in either state.                    *)
(***************************************************************************)
WindowBases ==
    {At(7 + d, h, 0, sec, 0) : d \in 0..MaxBaseDay, h \in {8, 10, 16}, sec \in {0, 30}}

WindowRules ==
    {Rule(weekdays[i], time) :
        i \in 1..Len(weekdays), time \in {T(0, 8, 0, 0), T(1, 6, 0, 0)}}

WindowInit ==
    /\ FORM_OPEN \in WindowRules
    /\ FORM_CLOSE \in WindowRules \ {FORM_OPEN}
    /\ RESPONSE_COUNT = Blank
    /\ MAIL_NOTIFY = DO_NOT_MAIL
    /\ clock \in WindowBases
    /\ accepting \in BOOLEAN
    /\ responses = 0
    /\ triggers = <<>>
    /\ outbox = <<>>
    /\ last = Nothing(accepting)
    /\ initialized = FALSE
    /\ trace = <<>>
    /\ rbase = 0 /\ rrule = Blank /\ rout = <<>>

WindowNext == Initialize

WindowSpec == WindowInit /\ [][WindowNext]_vars

\* the most recent occurrence of the valid rule r at or before t, found by
\* going back day by day from the day of t
LastEdge(t, r) ==
    LET past == {e \in {DayStart(t) - k * MsPerDay + RuleTimeOfDay(r) : k \in 0..7} :
                    getDay(e) = indexOf(r.day) /\ e <= t}
    IN  CHOOSE e \in past : \A f \in past : f <= e

\* t lies inside the weekly open window: the form was last told to open
\* later than it was last told to close
InWindow(t) == LastEdge(t, FORM_OPEN) > LastEdge(t, FORM_CLOSE)

BothRules ==
    ValidRule(FORM_OPEN) /\ ValidRule(FORM_CLOSE) /\ FORM_OPEN # FORM_CLOSE

\* the cycle ran on a Monday at 10:00 with Friday 16:00 / Wednesday 08:00
MondayScenario ==
    /\ CycleDone
    /\ getDay(last.now) = 1 /\ TimeOfDay(last.now) = 10 * MsPerHour
    /\ FORM_OPEN = Rule("Friday", T(1, 6, 0, 0))
    /\ FORM_CLOSE = Rule("Wednesday", T(0, 8, 0, 0))

\* shouldBeOpen of the cycle is true exactly inside the window
OpenExactlyInWindow ==
    (CycleDone /\ BothRules) =>
        /\ shouldBeOpen(NextOpen, NextClose) <=> InWindow(last.now)
        /\ accepting <=> InWindow(last.now)

\* C14 as stated: for two distinct rules and every now, shouldBeOpen =
\* (nextClose <= nextOpen) is true exactly when now lies inside the weekly
\* open window (the most recent open edge at or before now is later than
\* the most recent close edge at or before now); and on Monday 10:00 with
\* open Friday 16:00 and close Wednesday 08:00, nextOpen is this Friday,
\* nextClose is the Wednesday of next week, and shouldBeOpen is false.
C14_AsStated ==
    /\ OpenExactlyInWindow
    /\ MondayScenario =>
         /\ NextOpen = DayStart(last.now) + 4 * MsPerDay + 16 * MsPerHour
         /\ NextClose = DayStart(last.now) + 9 * MsPerDay + 8 * MsPerHour
         /\ ~shouldBeOpen(NextOpen, NextClose)
         /\ ~accepting

\* C14, amended: the same equivalence; and on Monday 10:00 with open Friday
\* 16:00 and close Wednesday 08:00, nextOpen is this Friday, nextClose is
\* the Wednesday of this week, two days on, and shouldBeOpen is true.
C14_OpenInsideWindow ==
    /\ OpenExactlyInWindow
    /\ MondayScenario =>
         /\ NextOpen = DayStart(last.now) + 4 * MsPerDay + 16 * MsPerHour
         /\ NextClose = DayStart(last.now) + 2 * MsPerDay + 8 * MsPerHour
         /\ shouldBeOpen(NextOpen, NextClose)
         /\ accepting

\* the Monday 10:00 cycle found the form closed and opened it
C14_Witness ==
    /\ MondayScenario
    /\ InWindow(last.now)
    /\ ~last.before /\ accepting

(***************************************************************************)
(* Cycles in which a call of a service of the host may throw.  The         *)
(* exception ends the handler where it is thrown; what the handler did     *)
(* before stays done.  These cycles are traced.                            *)
(***************************************************************************)
\* no call throws (0), or the call of that number does: a cycle makes at
\* most one listing, a deletion per trigger, four creations, the query of
\* the form's state, the change of state and its mail
FaultPoints == 0..(Len(triggers) + 8)

RanTraced(fn, w) == \E left \in {w} : Leaves(fn, left) /\ trace' = left.ops

\* the instants these cycles are run at: a Thursday, after the open edge,
\* on the close edge, a week after the first, and at the end
FaultInstants ==
    {At(0, 8, 0, 0, 0), At(1, 16, 0, 30, 500), At(6, 8, 0, 0, 0), At(7, 8, 0, 0, 0),
     At(MaxClockDay, 16, 0, 30, 500)}

\* time passes
FaultTick ==
    /\ \E t \in FaultInstants :
        /\ t > clock
        /\ \A u \in FaultInstants : u > clock => u >= t
        /\ clock' = t
    /\ UNCHANGED <<settings, accepting, responses, triggers, outbox, last,
                   initialized, trace, resolver>>

InitializeWithFault ==
    /\ \E k \in FaultPoints :
        RanTraced("Initialize", weeklyReInit([World EXCEPT !.fault = k], clock))
    /\ UNCHANGED <<settings, clock, responses, resolver>>

FireReInitWithFault ==
    /\ \E i \in 1..Len(triggers), k \in FaultPoints :
        /\ Due(i) /\ triggers[i].handler = "weeklyReInit"
        /\ RanTraced("weeklyReInit", weeklyReInit([Expired(i) EXCEPT !.fault = k], clock))
    /\ UNCHANGED <<settings, clock, responses, resolver>>

FaultInit ==
    /\ FORM_OPEN = Rule("Friday", T(1, 6, 0, 0))
    /\ FORM_CLOSE \in {Blank, Rule("Wednesday", T(0, 8, 0, 0))}
    /\ RESPONSE_COUNT \in LimitSettings
    /\ MAIL_NOTIFY \in {DO_NOT_MAIL, ALL_MAILS}
    /\ clock \in FaultInstants
    /\ accepting \in BOOLEAN
    /\ responses = 0
    /\ triggers = <<>>
    /\ outbox = <<>>
    /\ last = Nothing(accepting)
    /\ initialized = FALSE
    /\ trace = <<>>
    /\ rbase = 0 /\ rrule = Blank /\ rout = <<>>

FaultNext == FaultTick \/ InitializeWithFault \/ FireReInitWithFault \/ FireOpen \/ FireClose

FaultSpec == FaultInit /\ [][FaultNext]_vars

\* the calls of service s in the trace
Calls(s) == {i \in 1..Len(trace) : trace[i].service = s}
\* the call that threw, the last of the trace
Thrown == trace[Len(trace)].service
\* the services deleteTriggers_ calls
Clearing == {"getProjectTriggers", "deleteTrigger"}

\* C15: within a cycle every deletion of a trigger comes before the first
\* creation, and when a trigger is created the registry holds no trigger but
\* those the same cycle created: no trigger of an earlier cycle is
\* registered together with a new one.
C15_ClearedBeforeArmed ==
    CycleDone =>
        \A i \in Calls("newTrigger") :
            /\ \A j \in 1..Len(trace) : j > i => trace[j].service \notin Clearing
            /\ i > 1
            /\ trace[i - 1].registered = Cardinality({j \in Calls("newTrigger") : j < i})

\* a cycle that deleted the four triggers of the cycle before and created
\* four again
C15_Witness ==
    /\ CycleDone /\ ~last.failed
    /\ Cardinality(Calls("deleteTrigger")) = 4
    /\ Cardinality(Calls("newTrigger")) = 4

\* the time-based triggers of the registry that run fn and have not fired
Pending(fn) ==
    {i \in 1..Len(triggers) :
        /\ triggers[i].source = "CLOCK"
        /\ triggers[i].handler = fn
        /\ ~triggers[i].fired}

\* the last handler was a cycle in which a call threw
CycleFailed == CycleDone /\ last.failed

\* the creations of the failed cycle that returned
Created ==
    Cardinality(Calls("newTrigger")) - (IF Thrown = "newTrigger" THEN 1 ELSE 0)

\* the triggers the failed cycle created before the throw are registered:
\* after a complete clearing they are the registry, in the order of
\* creation, and a failed clearing is followed by no creation
CreatedRemain ==
    IF Thrown \in Clearing
    THEN Calls("newTrigger") = {}
    ELSE triggers = SubSeq(TriggersOfCycle, 1, Created)

\* C18 as stated: a cycle in which a call of a service throws before the
\* re-init trigger is created ends with no re-init trigger registered to
\* fire, and the triggers it created before the throw remain registered.
C18_AsStated ==
    CycleFailed =>
        /\ Pending("weeklyReInit") = {}
        /\ CreatedRemain

\* C18, amended: an exception is not caught.  A cycle in which a call
\* throws creates no re-init trigger, and the triggers it created before
\* the throw remain registered.  When the throw comes after the clearing,
\* or the cycle was run by its own trigger, no re-init trigger is left to
\* fire; when the listing or a deletion throws in a cycle run by
\* Initialize, the triggers not yet deleted stay, the pending re-init
\* trigger of the cycle before among them.  Once no re-init trigger is
\* pending, none is until Initialize is run.
C18_FailedCycleArmsNoReInit ==
    /\ [](CycleFailed =>
            /\ Thrown \notin Clearing => Count("weeklyReInit") = 0
            /\ last.fn = "weeklyReInit" => Pending("weeklyReInit") = {}
            /\ CreatedRemain)
    /\ [][Pending("weeklyReInit") = {} =>
            (Pending("weeklyReInit")' = {} \/ last'.fn = "Initialize")]_vars

\* the mail of the reconciliation threw: the form's state is changed, the
\* two edge triggers are registered, and no re-init trigger is
C18_Witness ==
    /\ CycleFailed
    /\ Thrown = "sendEmail"
    /\ accepting # last.before
    /\ Len(triggers) = 2
    /\ Count("weeklyReInit") = 0

(***************************************************************************)
(* The script left to run week after week: the host fires every trigger    *)
(* at the instant it is due, before time moves on, in any order when       *)
(* several are due together; the owner may run Initialize at any instant.  *)
(* The behaviour of the script depends on the instants only through their  *)
(* weekday and time of day, so when the clock reaches the end of its       *)
(* second week all instants of the state are set back a week.              *)
(***************************************************************************)
\* the instants of a week the clock passes through: a Thursday morning,
\* the open edge and half a minute after it, inside the window, and the
\* close edge
WeekInstants ==
    {At(0, 8, 0, 0, 0), At(1, 16, 0, 0, 0), At(1, 16, 0, 30, 500), At(4, 10, 0, 0, 0),
     At(6, 8, 0, 0, 0)}

\* the instant that follows t
Following(t) ==
    LET later == {u + k * Week : u \in WeekInstants, k \in 1..2}
    IN  CHOOSE u \in later : u > t /\ \A v \in later : v > t => v >= u

SetBack(t) == IF t = NaN THEN NaN ELSE t - Week

SetBackTrigger(t) ==
    IF t.source = "CLOCK" THEN [t EXCEPT !.at = SetBack(@)] ELSE t

\* time passes when no trigger is due
WeekTick ==
    /\ \A i \in 1..Len(triggers) : ~Due(i)
    /\ IF Following(clock) < 2 * Week
       THEN /\ clock' = Following(clock)
            /\ UNCHANGED <<triggers, last>>
       ELSE /\ clock' = SetBack(Following(clock))
            /\ triggers' = [i \in 1..Len(triggers) |-> SetBackTrigger(triggers[i])]
            /\ last' = [last EXCEPT !.now = SetBack(@)]
    /\ UNCHANGED <<settings, accepting, responses, outbox, initialized, trace, resolver>>

WeekInit ==
    /\ FORM_OPEN \in {Blank, Rule("Friday", T(1, 6, 0, 0))}
    /\ FORM_CLOSE \in {Blank, Rule("Wednesday", T(0, 8, 0, 0))}
    /\ RESPONSE_COUNT \in LimitSettings
    /\ MAIL_NOTIFY \in {DO_NOT_MAIL, ALL_MAILS}
    /\ clock \in {Week + t : t \in WeekInstants}
    /\ accepting \in BOOLEAN
    /\ responses = 0
    /\ triggers = <<>>
    /\ outbox = <<>>
    /\ last = Nothing(accepting)
    /\ initialized = FALSE
    /\ trace = <<>>
    /\ rbase = 0 /\ rrule = Blank /\ rout = <<>>

WeekNext == WeekTick \/ Initialize \/ FireOpen \/ FireClose \/ FireReInit

\* time passes, and the host runs the handler of a trigger that is due
WeekSpec ==
    /\ WeekInit /\ [][WeekNext]_vars
    /\ WF_vars(WeekTick)
    /\ WF_vars(FireOpen) /\ WF_vars(FireClose) /\ WF_vars(FireReInit)

\* a cycle has just run, at the instant of the clock
CycleRuns == CycleDone /\ last.now = clock

\* C16: every cycle leaves exactly one re-init trigger, at exactly the
\* cycle's now plus 7 days, the last of the registry; once Initialize has
\* run a re-init trigger is pending in every state; and, the host firing
\* the triggers that are due, weeklyReInit runs again and again for ever.
C16_SelfPerpetuating ==
    /\ [](CycleDone =>
            /\ Count("weeklyReInit") = 1
            /\ triggers[Len(triggers)] = ClockTrigger("weeklyReInit", last.now + Week))
    /\ [](initialized => Cardinality(Pending("weeklyReInit")) = 1)
    /\ [](initialized => <>CycleRuns)

\* a cycle run by its own trigger, a week after the cycle before, with now
\* carrying seconds and both edges resolved in between
C16_Witness ==
    /\ CycleRuns
    /\ last.fn = "weeklyReInit"
    /\ last.now % MsPerMinute # 0
    /\ FORM_OPEN # Blank /\ FORM_CLOSE # Blank
    /\ Pending("weeklyReInit") = {Len(triggers)}
    /\ triggers[Len(triggers)].at = clock + Week

\* no trigger is due
Quiet == \A i \in 1..Len(triggers) : ~Due(i)

\* C17: with both rules configured and distinct and no response limit, the
\* triggers firing at the instants they are due (in either order when an
\* edge trigger and the re-init trigger are due together), at every instant
\* after the first cycle the form is accepting if and only if the instant
\* lies inside the weekly open window.
C17_AcceptingExactlyInWindow ==
    (initialized /\ BothRules /\ RESPONSE_COUNT = Blank /\ Quiet) =>
        (accepting <=> InWindow(clock))

\* the re-init trigger and the open trigger were due together on the open
\* edge; the cycle ran first and opened the form itself
C17_Witness ==
    /\ initialized /\ BothRules /\ RESPONSE_COUNT = Blank /\ Quiet
    /\ OnRule(clock, FORM_OPEN)
    /\ last.fn = "weeklyReInit" /\ last.now = clock
    /\ ~last.before /\ last.calls = <<"openForm">>
    /\ accepting

=============================================================================
